---- MODULE Spec2Model ----
(***************************************************************************)
(* A model of notion_to_github.py: the NotionToGitHub class that renders   *)
(* Notion pages to Jekyll posts and upserts them into a GitHub repository. *)
(*                                                                         *)
(* Text is modelled as a sequence of characters, each character a string   *)
(* of length one ("\n" is the line feed).  Two tokens stand for characters *)
(* outside ASCII: "U+D55C" (a Hangul syllable, a word character) and       *)
(* "U+2014" (an em dash, neither a word character nor whitespace); the     *)
(* token "U+0060" stands for the grave accent of a code fence.             *)
(* Python's None is the value None below; a dict is a function whose       *)
(* DOMAIN is its key set.  The localized property names of the source are  *)
(* written in romanized form ("Jemok", "Naljja", "Taegeu", "Kategori").    *)
(***************************************************************************)
EXTENDS Integers, Sequences, FiniteSets, TLC

VARIABLES
    arg,        \* the argument of the function under call (pure-function runs)
    ret,        \* its return value, None before the call returns
    pc,         \* sync(): the position of the run
    pages,      \* sync(): the list get_published_pages returned
    idx,        \* sync(): the loop index i (1-based, as enumerate(pages, 1))
    frame,      \* sync(): the locals of the current iteration, and its requests
    store,      \* the GitHub repository: the files it holds, by path
    nextSha,    \* the next version token the repository hands out
    calls,      \* how many HTTP requests each API has received; whether one failed
    out,        \* what the run printed: progress, uploads, errors, completion
    others      \* the number of writes another writer made to the repository

vars == <<arg, ret, pc, pages, idx, frame, store, nextSha, calls, out, others>>

None == "None"

(***************************************************************************)
(* Bounds of the model.                                                    *)
(***************************************************************************)
MaxTitleLen == 4     \* create_filename: the longest enumerated title
MaxBlocks == 2       \* page_to_markdown: the longest enumerated block list
MaxTags == 2         \* create_jekyll_post: the longest enumerated tag list
MaxPages == 3        \* sync: the longest list of published pages
MaxOtherWrites == 1  \* sync: writes of another writer during one run

(***************************************************************************)
(* Characters and Python's str / re primitives.                            *)
(***************************************************************************)
UpperLetters ==
    <<"A","B","C","D","E","F","G","H","I","J","K","L","M",
      "N","O","P","Q","R","S","T","U","V","W","X","Y","Z">>

LowerLetters ==
    <<"a","b","c","d","e","f","g","h","i","j","k","l","m",
      "n","o","p","q","r","s","t","u","v","w","x","y","z">>

Digits == {"0","1","2","3","4","5","6","7","8","9"}

Range(s) == {s[k] : k \in 1..Len(s)}

\* \w of a str pattern: letters (of any script), digits and the underscore.
IsWord(c) ==
    c \in Range(UpperLetters) \cup Range(LowerLetters) \cup Digits \cup {"_", "U+D55C"}

\* \s of a str pattern.
IsSpace(c) == c \in {" ", "\t", "\n"}

\* str.lower() on one character.
LowerChar(c) ==
    IF \E k \in 1..26 : UpperLetters[k] = c
    THEN LowerLetters[CHOOSE k \in 1..26 : UpperLetters[k] = c]
    ELSE c

Lower(s) == [k \in 1..Len(s) |-> LowerChar(s[k])]

\* re.sub(r'[^\w\s-]', '', s)
KeepSafe(c) == IsWord(c) \/ IsSpace(c) \/ c = "-"

RemoveUnsafe(s) == SelectSeq(s, KeepSafe)

IsSep(c) == IsSpace(c) \/ c = "-"

RECURSIVE DropSeps(_)
DropSeps(s) ==
    IF s # <<>> /\ IsSep(Head(s)) THEN DropSeps(Tail(s)) ELSE s

\* re.sub(r'[-\s]+', '-', s)
RECURSIVE CollapseSeps(_)
CollapseSeps(s) ==
    IF s = <<>> THEN <<>>
    ELSE IF IsSep(Head(s)) THEN <<"-">> \o CollapseSeps(DropSeps(s))
    ELSE <<Head(s)>> \o CollapseSeps(Tail(s))

RECURSIVE LStripHyphen(_)
LStripHyphen(s) ==
    IF s # <<>> /\ Head(s) = "-" THEN LStripHyphen(Tail(s)) ELSE s

RECURSIVE RStripHyphen(_)
RStripHyphen(s) ==
    IF s # <<>> /\ s[Len(s)] = "-" THEN RStripHyphen(SubSeq(s, 1, Len(s) - 1)) ELSE s

\* str.strip('-')
StripHyphen(s) == RStripHyphen(LStripHyphen(s))

(***************************************************************************)
(* create_filename(date, title)                                            *)
(***************************************************************************)
SafeTitleKeepingEnds(title) == CollapseSeps(RemoveUnsafe(Lower(title)))

SafeTitle(title) == StripHyphen(CollapseSeps(RemoveUnsafe(Lower(title))))

DotMd == <<".", "m", "d">>

create_filename(date, title) == date \o <<"-">> \o SafeTitle(title) \o DotMd

(***************************************************************************)
(* Python dicts and lists.                                                 *)
(***************************************************************************)
EmptyDict == <<>>

\* d.get(k, default).  A JSON null is modelled as a missing key: every read
\* of the source goes through .get and a truth test, which cannot tell them
\* apart.
Get(d, k, default) == IF k \in DOMAIN d THEN d[k] ELSE default

\* bool(d) of a dict or a list.
Truthy(d) == DOMAIN d # {}

\* d.get(k1) or d.get(k2) or ...: the value under the first key of keys whose
\* value is truthy.  When there is none the result is falsy (None or an empty
\* dict), written EmptyDict: the source only tests it for truth.
RECURSIVE OrGet(_, _)
OrGet(d, keys) ==
    IF keys = <<>> THEN EmptyDict
    ELSE IF Truthy(Get(d, Head(keys), EmptyDict)) THEN d[Head(keys)]
    ELSE OrGet(d, Tail(keys))

RECURSIVE Concat(_)
Concat(ss) == IF ss = <<>> THEN <<>> ELSE Head(ss) \o Concat(Tail(ss))

\* sep.join(ss)
RECURSIVE Join(_, _)
Join(sep, ss) ==
    IF ss = <<>> THEN <<>>
    ELSE IF Len(ss) = 1 THEN Head(ss)
    ELSE Head(ss) \o sep \o Join(sep, Tail(ss))

Reverse(s) == [k \in 1..Len(s) |-> s[Len(s) + 1 - k]]

(***************************************************************************)
(* extract_text_from_rich_text(rich_text)                                  *)
(***************************************************************************)
extract_text_from_rich_text(rich_text) ==
    IF ~Truthy(rich_text) THEN <<>>
    ELSE Concat([k \in 1..Len(rich_text) |-> Get(rich_text[k], "plain_text", <<>>)])

(***************************************************************************)
(* block_to_markdown(block, level)                                         *)
(***************************************************************************)
NoneText == <<"N", "o", "n", "e">>

Backtick == "U+0060"

Fence == <<Backtick, Backtick, Backtick>>

Indent(level) == Concat([k \in 1..level |-> <<" ", " ">>])

ImageUrl(block_data) ==
    LET fileUrl == Get(Get(block_data, "file", EmptyDict), "url", <<>>)
        extUrl == Get(Get(block_data, "external", EmptyDict), "url", <<>>)
    IN  IF fileUrl # <<>> THEN fileUrl
        ELSE IF extUrl # <<>> THEN extUrl
        ELSE NoneText

block_to_markdown(block, level) ==
    LET block_type == Get(block, "type", None)
        block_data == Get(block, block_type, EmptyDict)
        text == extract_text_from_rich_text(Get(block_data, "rich_text", <<>>))
    IN  CASE block_type = "paragraph" -> text \o <<"\n", "\n">>
          [] block_type = "heading_1" -> <<"#", " ">> \o text \o <<"\n", "\n">>
          [] block_type = "heading_2" -> <<"#", "#", " ">> \o text \o <<"\n", "\n">>
          [] block_type = "heading_3" -> <<"#", "#", "#", " ">> \o text \o <<"\n", "\n">>
          [] block_type = "bulleted_list_item" ->
                Indent(level) \o <<"-", " ">> \o text \o <<"\n">>
          [] block_type = "numbered_list_item" ->
                Indent(level) \o <<"1", ".", " ">> \o text \o <<"\n">>
          [] block_type = "code" ->
                Fence \o Get(block_data, "language", <<>>) \o <<"\n">>
                    \o text \o <<"\n">> \o Fence \o <<"\n", "\n">>
          [] block_type = "quote" -> <<">", " ">> \o text \o <<"\n", "\n">>
          [] block_type = "divider" -> <<"-", "-", "-", "\n", "\n">>
          [] block_type = "image" ->
                <<"!", "[">> \o extract_text_from_rich_text(Get(block_data, "caption", <<>>))
                    \o <<"]", "(">> \o ImageUrl(block_data) \o <<")", "\n", "\n">>
          [] OTHER -> <<>>

\* content = ""; for block in blocks: content += self.block_to_markdown(block)
RenderBlocksBackwards(blocks) ==
    Concat([k \in 1..Len(blocks) |-> block_to_markdown(blocks[Len(blocks) + 1 - k], 0)])

RenderBlocks(blocks) ==
    Concat([k \in 1..Len(blocks) |-> block_to_markdown(blocks[k], 0)])

(***************************************************************************)
(* page_to_markdown(page); blocks is what get_page_content(page["id"])     *)
(* returned.                                                               *)
(***************************************************************************)
TitleKeys == <<"Name", "Title", "Jemok">>
DateKeys == <<"Date", "Created", "Naljja">>
TagsKeys == <<"Tags", "Taegeu">>
CategoryKeys == <<"Category", "Kategori">>

Untitled == <<"U", "n", "t", "i", "t", "l", "e", "d">>

\* s[:n]
Take(s, n) == SubSeq(s, 1, IF Len(s) < n THEN Len(s) ELSE n)

DateLen == 10

PropLastWins(properties, keys) == OrGet(properties, Reverse(keys))

Prop(properties, keys) == OrGet(properties, keys)

ExtractTitle(properties) ==
    LET title_prop == Prop(properties, TitleKeys)
    IN  IF Truthy(title_prop)
        THEN extract_text_from_rich_text(Get(title_prop, "title", <<>>))
        ELSE Untitled

ExtractDate(page, properties) ==
    LET date_prop == Prop(properties, DateKeys)
    IN  IF Truthy(date_prop) /\ Truthy(Get(date_prop, "date", EmptyDict))
        THEN date_prop["date"]["start"]
        ELSE Take(Get(page, "created_time", <<>>), DateLen)

ExtractTags(properties) ==
    LET tags_prop == Prop(properties, TagsKeys)
    IN  IF Truthy(tags_prop) /\ Truthy(Get(tags_prop, "multi_select", <<>>))
        THEN [k \in 1..Len(tags_prop["multi_select"]) |-> tags_prop["multi_select"][k]["name"]]
        ELSE <<>>

ExtractCategory(properties) ==
    LET category_prop == Prop(properties, CategoryKeys)
    IN  IF Truthy(category_prop) /\ Truthy(Get(category_prop, "select", EmptyDict))
        THEN category_prop["select"]["name"]
        ELSE <<>>

page_to_markdown(page, blocks) ==
    LET properties == Get(page, "properties", EmptyDict)
        title == ExtractTitle(properties)
        category == ExtractCategory(properties)
    IN  [title |-> title,
         content |-> RenderBlocks(blocks),
         front_matter |->
            [title |-> title,
             date |-> ExtractDate(page, properties),
             categories |-> IF category # <<>> THEN <<category>> ELSE <<>>,
             tags |-> ExtractTags(properties)]]

(***************************************************************************)
(* create_jekyll_post(title, content, front_matter)                        *)
(***************************************************************************)
HeaderMarker == <<"-", "-", "-">>

\* str(list) of a list of str without quotes or backslashes in them.
Quoted(x) == <<"'">> \o x \o <<"'">>

ListRepr(xs) ==
    <<"[">> \o Join(<<",", " ">>, [k \in 1..Len(xs) |-> Quoted(xs[k])]) \o <<"]">>

CategoriesLine(front_matter) ==
    <<"c", "a", "t", "e", "g", "o", "r", "i", "e", "s", ":", " ">>
        \o ListRepr(front_matter.categories) \o <<"\n">>

TagsLine(front_matter) ==
    <<"t", "a", "g", "s", ":", " ", "[">> \o Join(<<" ">>, front_matter.tags) \o <<"]", "\n">>

create_jekyll_post_all_keys(title, content, front_matter) ==
    HeaderMarker \o <<"\n">>
        \o <<"l", "a", "y", "o", "u", "t", ":", " ", "p", "o", "s", "t", "\n">>
        \o <<"t", "i", "t", "l", "e", ":", " ", "\"">> \o front_matter.title \o <<"\"", "\n">>
        \o <<"d", "a", "t", "e", ":", " ">> \o front_matter.date \o <<"\n">>
        \o CategoriesLine(front_matter)
        \o TagsLine(front_matter)
        \o HeaderMarker \o <<"\n", "\n">>
        \o content

create_jekyll_post(title, content, front_matter) ==
    HeaderMarker \o <<"\n">>
        \o <<"l", "a", "y", "o", "u", "t", ":", " ", "p", "o", "s", "t", "\n">>
        \o <<"t", "i", "t", "l", "e", ":", " ", "\"">> \o front_matter.title \o <<"\"", "\n">>
        \o <<"d", "a", "t", "e", ":", " ">> \o front_matter.date \o <<"\n">>
        \o (IF Truthy(front_matter.categories) THEN CategoriesLine(front_matter) ELSE <<>>)
        \o (IF Truthy(front_matter.tags) THEN TagsLine(front_matter) ELSE <<>>)
        \o HeaderMarker \o <<"\n", "\n">>
        \o content

(***************************************************************************)
(* Inputs of the pure-function runs.                                       *)
(***************************************************************************)
BoundedSeq(S, n) == UNION {[1..k -> S] : k \in 0..n}

Date20240101 == <<"2", "0", "2", "4", "-", "0", "1", "-", "0", "1">>

Date20240202 == <<"2", "0", "2", "4", "-", "0", "2", "-", "0", "2">>

\* created_time as the Notion API gives it: an ISO 8601 timestamp.
Created20231231 ==
    <<"2", "0", "2", "3", "-", "1", "2", "-", "3", "1", "T", "2", "3", ":",
      "5", "9", ":", "5", "9", ".", "0", "0", "0", "Z">>

Created20240101 ==
    <<"2", "0", "2", "4", "-", "0", "1", "-", "0", "1", "T", "0", "9", ":",
      "3", "0", ":", "0", "0", ".", "0", "0", "0", "Z">>

HelloWorld == <<"H", "e", "l", "l", "o", " ", "W", "o", "r", "l", "d", "!">>

Span(text) == [type |-> "text", plain_text |-> text]

TitleChars == {"a", "B", "_", " ", "-", "!", "U+D55C"}

FilenameArgs ==
    {[fn |-> "create_filename", date |-> Date20240101, title |-> t] :
        t \in BoundedSeq(TitleChars, MaxTitleLen) \cup {HelloWorld}}

\* A property of the page under alias key.  A property object of the Notion
\* API always carries its type (and so is truthy); shape "full" has a value
\* that names the alias, shape "empty" has none (no spans, a null date, no
\* option selected), shape "blank" is a title of one span of empty text.
AliasMark(key) == <<"<">> \o <<key>> \o <<">">>

AliasDate(key) ==
    CASE key = "Date" -> <<"2", "0", "2", "4", "-", "0", "3", "-", "0", "1">>
      [] key = "Created" -> <<"2", "0", "2", "4", "-", "0", "3", "-", "0", "2">>
      [] OTHER -> <<"2", "0", "2", "4", "-", "0", "3", "-", "0", "3">>

PropertyOf(key, shape) ==
    CASE key \in Range(TitleKeys) ->
            [type |-> "title",
             title |-> CASE shape = "full" -> <<Span(AliasMark(key)), Span(<<"x">>)>>
                         [] shape = "blank" -> <<Span(<<>>)>>
                         [] OTHER -> <<>>]
      [] key \in Range(DateKeys) ->
            IF shape = "full"
            THEN [type |-> "date", date |-> [start |-> AliasDate(key)]]
            ELSE [type |-> "date"]
      [] key \in Range(TagsKeys) ->
            [type |-> "multi_select",
             multi_select |->
                IF shape = "full"
                THEN <<[name |-> AliasMark(key)], [name |-> <<"t">>]>>
                ELSE <<>>]
      [] OTHER ->
            IF shape = "full"
            THEN [type |-> "select", select |-> [name |-> AliasMark(key)]]
            ELSE [type |-> "select"]

AllKeys == Range(TitleKeys) \cup Range(DateKeys) \cup Range(TagsKeys) \cup Range(CategoryKeys)

\* Every presence pattern of the ten aliases, each present alias "full".
PresenceBags == {[k \in K |-> PropertyOf(k, "full")] : K \in SUBSET AllKeys}

\* For one field at a time, every pattern of absent / full / empty / blank aliases.
ShapeBags(keys) ==
    UNION {{[k \in K |-> PropertyOf(k, sh[k])] : sh \in [K -> {"full", "empty", "blank"}]} :
              K \in SUBSET Range(keys)}

PropertyBags ==
    PresenceBags \cup ShapeBags(TitleKeys) \cup ShapeBags(DateKeys)
        \cup ShapeBags(TagsKeys) \cup ShapeBags(CategoryKeys)

RichText(text) == [rich_text |-> <<Span(text)>>]

Intro == <<"I", "n", "t", "r", "o">>

SampleBlocks ==
    {[type |-> "paragraph", paragraph |-> RichText(<<"h", "i">>)],
     [type |-> "paragraph", paragraph |-> [rich_text |-> <<>>]],
     [type |-> "heading_1", heading_1 |-> RichText(<<"H", "1">>)],
     [type |-> "heading_2", heading_2 |-> RichText(Intro)],
     [type |-> "heading_3", heading_3 |-> RichText(<<"H", "3">>)],
     [type |-> "bulleted_list_item", bulleted_list_item |-> RichText(<<"b">>)],
     [type |-> "numbered_list_item", numbered_list_item |-> RichText(<<"n">>)],
     [type |-> "code",
      code |-> [rich_text |-> <<Span(<<"x", "=">>), Span(<<"1">>)>>, language |-> <<"p", "y">>]],
     [type |-> "quote", quote |-> RichText(<<"q">>)],
     [type |-> "divider", divider |-> EmptyDict],
     [type |-> "image",
      image |-> [type |-> "file", file |-> [url |-> <<"f">>], caption |-> <<Span(<<"c">>)>>]],
     [type |-> "image",
      image |-> [type |-> "external", external |-> [url |-> <<"e">>], caption |-> <<>>]],
     [type |-> "table", table |-> [table_width |-> 2]],
     [type |-> "toggle", toggle |-> RichText(<<"t">>)],
     [type |-> "unsupported"]}

PageOf(properties, created) ==
    [id |-> "page", properties |-> properties, created_time |-> created]

PageArgs ==
    {[fn |-> "page_to_markdown", page |-> PageOf(b, c), blocks |-> <<>>] :
        b \in PropertyBags, c \in {Created20231231, Created20240101}}
    \cup
    {[fn |-> "page_to_markdown",
      page |-> PageOf([k \in {"Name"} |-> PropertyOf(k, "full")], Created20240101),
      blocks |-> bs] : bs \in BoundedSeq(SampleBlocks, MaxBlocks)}

SampleTags == {<<"t", "1">>, <<"t", "2">>}

SampleContents ==
    {<<>>,
     <<"h", "i", "\n", "\n">>,
     <<"-", "-", "-", "\n", "\n">>,
     <<"t", "a", "g", "s", ":", " ", "[", "x", "]", "\n", "\n">>}

PostArgs ==
    {[fn |-> "create_jekyll_post", title |-> t, content |-> c,
      front_matter |-> [title |-> t, date |-> d, categories |-> cs, tags |-> ts]] :
        t \in {<<>>, <<"A", " ", "b">>, HelloWorld},
        c \in SampleContents,
        d \in {Date20240101, Date20240202},
        cs \in {<<>>, <<<<"c", "a", "t">>>>},
        ts \in BoundedSeq(SampleTags, MaxTags)}

(***************************************************************************)
(* The state of a run that is not a sync() run, and of one that is not a   *)
(* call of a pure function.                                                *)
(***************************************************************************)
NoSync ==
    /\ pc = "Idle"
    /\ pages = <<>>
    /\ idx = 0
    /\ frame = EmptyDict
    /\ store = EmptyDict
    /\ nextSha = 0
    /\ calls = EmptyDict
    /\ out = <<>>
    /\ others = 0

syncVars == <<pc, pages, idx, frame, store, nextSha, calls, out, others>>

(***************************************************************************)
(* Calls of the pure functions: ret is <<>> until the call has returned,   *)
(* and <<value>> afterwards.                                               *)
(***************************************************************************)
CallCreateFilename ==
    /\ pc = "Idle" /\ ret = <<>> /\ arg.fn = "create_filename"
    /\ ret' = <<create_filename(arg.date, arg.title)>>
    /\ UNCHANGED <<arg, syncVars>>

CallPageToMarkdown ==
    /\ pc = "Idle" /\ ret = <<>> /\ arg.fn = "page_to_markdown"
    /\ ret' = <<page_to_markdown(arg.page, arg.blocks)>>
    /\ UNCHANGED <<arg, syncVars>>

CallCreateJekyllPost ==
    /\ pc = "Idle" /\ ret = <<>> /\ arg.fn = "create_jekyll_post"
    /\ ret' = <<create_jekyll_post(arg.title, arg.content, arg.front_matter)>>
    /\ UNCHANGED <<arg, syncVars>>

FilenameInit == arg \in FilenameArgs /\ ret = <<>> /\ NoSync

FilenameNext == CallCreateFilename

FilenameSpec == FilenameInit /\ [][FilenameNext]_vars

PageInit == arg \in PageArgs /\ ret = <<>> /\ NoSync

PageNext == CallPageToMarkdown

PageSpec == PageInit /\ [][PageNext]_vars

PostInit == arg \in PostArgs /\ ret = <<>> /\ NoSync

PostNext == CallCreateJekyllPost

PostSpec == PostInit /\ [][PostNext]_vars

(***************************************************************************)
(* The pages of a sync() run.  PageAB and PageA_B differ in content and    *)
(* map to the same file name; PageC has no date property.                  *)
(***************************************************************************)
TitleProperty(text) == [type |-> "title", title |-> <<Span(text)>>]

DateProperty(date) == [type |-> "date", date |-> [start |-> date]]

PageAB ==
    [id |-> "p1", created_time |-> Created20231231,
     properties |-> [Name |-> TitleProperty(<<"A", " ", "b">>), Date |-> DateProperty(Date20240101)]]

PageA_B ==
    [id |-> "p2", created_time |-> Created20231231,
     properties |-> [Name |-> TitleProperty(<<"a", "-", "b">>), Date |-> DateProperty(Date20240101)]]

PageC ==
    [id |-> "p3", created_time |-> Created20240101,
     properties |-> [Title |-> TitleProperty(<<"c", "!">>),
                     Tags |-> [type |-> "multi_select", multi_select |-> <<[name |-> <<"t">>]>>]]]

SamplePages == {PageAB, PageA_B, PageC}

\* The children of each page in the Notion workspace.
Children(page_id) ==
    CASE page_id = "p1" -> <<[type |-> "paragraph", paragraph |-> RichText(<<"h", "i">>)]>>
      [] page_id = "p2" ->
            <<[type |-> "table", table |-> [table_width |-> 2]],
              [type |-> "heading_2", heading_2 |-> RichText(Intro)]>>
      [] OTHER -> <<>>

\* blog_posts_path, left at its default.
blog_posts_path == <<"_", "p", "o", "s", "t", "s">>

(***************************************************************************)
(* The GitHub repository.  A file is [exists, sha, content, by]: by is the *)
(* index of the page of this run whose write produced the content (0 for   *)
(* content that was there before the run or came from another writer).     *)
(* The repository hands out a fresh version token with every accepted      *)
(* write.                                                                  *)
(***************************************************************************)
NoFile == [exists |-> FALSE, sha |-> 0, content |-> <<>>, by |-> 0]

File(sha, content, by) == [exists |-> TRUE, sha |-> sha, content |-> content, by |-> by]

PathAB == blog_posts_path \o <<"/">> \o Date20240101 \o <<"-", "a", "-", "b", ".", "m", "d">>

PathC == blog_posts_path \o <<"/">> \o Date20240101 \o <<"-", "c", ".", "m", "d">>

OldContent == <<"o", "l", "d">>

ForeignContent == <<"f", "o", "r", "e", "i", "g", "n">>

InitialStores == {EmptyDict, PathAB :> File(1, OldContent, 0)}

FileAt(path) == IF path \in DOMAIN store THEN store[path] ELSE NoFile

\* The status the contents API answers a GET with, when it answers normally.
LookupStatus(path) == IF FileAt(path).exists THEN 200 ELSE 404

\* The status the contents API answers a PUT with, when it answers normally:
\* created, updated, or refused because the token sent is not the token of
\* the file (409), or is missing for a file that exists (422).
WriteStatus(path, sha) ==
    IF ~FileAt(path).exists
    THEN IF sha = <<>> THEN 201 ELSE 422
    ELSE IF sha = <<>> THEN 422
    ELSE IF sha = <<FileAt(path).sha>> THEN 200
    ELSE 409

ServerError == 500

\* No response at all: requests raises instead of returning one.
NoResponse == 0

\* response.raise_for_status(): an HTTPError for a 4xx or 5xx status.
raise_for_status(status) == status >= 400 /\ status < 600

\* A request that was refused or not answered; 404 is the answer of a lookup
\* of a path without a file.
Failed(status) == status = NoResponse \/ (raise_for_status(status) /\ status # 404)

\* One HTTP request of the current iteration; seen is the file at its path
\* when the repository handled it.
Request(op, api, path, status, sha) ==
    [op |-> op, api |-> api, path |-> path, status |-> status, sha |-> sha,
     seen |-> IF api = "contents" THEN FileAt(path) ELSE NoFile,
     others |-> others]

\* The tally of requests per API, and whether any request failed.
Count(api, status) ==
    [calls EXCEPT ![api] = @ + 1, !.failed = @ \/ Failed(status)]

Printed(kind) == [kind |-> kind, i |-> idx]

NoFrame == [requests |-> <<>>]

(***************************************************************************)
(* sync()                                                                  *)
(***************************************************************************)
SyncInit ==
    /\ arg = EmptyDict /\ ret = <<>>
    /\ pc = "Start"
    /\ pages = <<>>
    /\ idx = 0
    /\ frame = NoFrame
    /\ store \in InitialStores
    /\ nextSha = 2
    /\ calls = [query |-> 0, blocks |-> 0, lookup |-> 0, put |-> 0, failed |-> FALSE]
    /\ out = <<>>
    /\ others = 0

\* get_published_pages(): response.raise_for_status()
ListingIgnoresStatus(status) == FALSE

ListingRaises(status) == raise_for_status(status)

\* pages = self.get_published_pages(): the call is outside the try block, so
\* what it raises ends the run.
GetPublishedPages ==
    /\ pc = "Start"
    /\ \E status \in {200, ServerError}, results \in BoundedSeq(SamplePages, MaxPages) :
        /\ calls' = Count("query", status)
        /\ IF ListingRaises(status)
           THEN /\ pc' = "Raised"
                /\ UNCHANGED pages
           ELSE /\ pc' = "Loop"
                /\ pages' = IF Failed(status) THEN <<>> ELSE results
    /\ UNCHANGED <<arg, ret, idx, frame, store, nextSha, out, others>>

\* for i, page in enumerate(pages, 1): print(progress) ... ; print(complete)
NextPage ==
    /\ pc = "Loop"
    /\ IF idx < Len(pages)
       THEN /\ idx' = idx + 1
            /\ pc' = "Convert"
            /\ out' = Append(out, [kind |-> "progress", i |-> idx + 1])
       ELSE /\ pc' = "Done"
            /\ out' = Append(out, Printed("complete"))
            /\ UNCHANGED idx
    /\ frame' = NoFrame
    /\ UNCHANGED <<arg, ret, pages, store, nextSha, calls, others>>

\* except Exception as e: print(error); continue
ExceptAborts ==
    /\ pc' = "Raised"
    /\ out' = Append(out, Printed("error"))

Except ==
    /\ pc' = "Loop"
    /\ out' = Append(out, Printed("error"))

\* title, content, front_matter = self.page_to_markdown(page).  The block
\* fetch may be refused, and the conversion may raise on data the code does
\* not expect.
PageToMarkdown ==
    /\ pc = "Convert"
    /\ \E outcome \in {"ok", "fetch_refused", "raised"} :
        LET status == IF outcome = "fetch_refused" THEN ServerError ELSE 200
            page == pages[idx]
            request == Request("GET", "blocks", <<>>, status, <<>>)
        IN  /\ calls' = Count("blocks", status)
            /\ IF raise_for_status(status) \/ outcome = "raised"
               THEN /\ Except
                    /\ frame' = [requests |-> <<request>>]
               ELSE /\ frame' = [requests |-> <<request>>]
                                    @@ page_to_markdown(page, Children(page.id))
                    /\ pc' = "Assemble"
                    /\ UNCHANGED out
    /\ UNCHANGED <<arg, ret, pages, idx, store, nextSha, others>>

FilePathFlat(directory, filename) == filename

FilePath(directory, filename) == directory \o <<"/">> \o filename

CommitMessage(title) == <<"P", "o", "s", "t", ":", " ">> \o title

\* post_content, filename, filepath and commit_message of the iteration.
Assemble ==
    /\ pc = "Assemble"
    /\ \E raised \in BOOLEAN :
        IF raised
        THEN Except /\ UNCHANGED frame
        ELSE /\ frame' =
                    [requests |-> frame.requests,
                     title |-> frame.title,
                     post_content |->
                        create_jekyll_post(frame.title, frame.content, frame.front_matter),
                     filepath |->
                        FilePath(blog_posts_path,
                                 create_filename(frame.front_matter.date, frame.title)),
                     commit_message |-> CommitMessage(frame.title),
                     sha |-> <<>>]
             /\ pc' = "Lookup"
             /\ UNCHANGED out
    /\ UNCHANGED <<arg, ret, pages, idx, store, nextSha, calls, others>>

\* get_file_sha(filepath): the sha of a 200 response, None for any other.
get_file_sha(status, path) == IF status = 200 THEN <<FileAt(path).sha>> ELSE <<>>

\* sha = self.get_file_sha(filepath), the first request of push_to_github.
GetFileSha ==
    /\ pc = "Lookup"
    /\ \E status \in {LookupStatus(frame.filepath), ServerError, NoResponse} :
        LET sha == get_file_sha(status, frame.filepath)
            request == Request("GET", "contents", frame.filepath, status, sha)
        IN  /\ calls' = Count("lookup", status)
            /\ frame' = [frame EXCEPT !.requests = Append(@, request), !.sha = sha]
            /\ IF status = NoResponse
               THEN Except
               ELSE pc' = "Write" /\ UNCHANGED out
    /\ UNCHANGED <<arg, ret, pages, idx, store, nextSha, others>>

\* The sha of the payload: if sha: payload["sha"] = sha
PayloadShaDropped(sha) == <<>>

PayloadSha(sha) == sha

\* requests.put(url, json=payload); response.raise_for_status(); print(done)
PutFile ==
    /\ pc = "Write"
    /\ \E answered \in BOOLEAN :
        LET path == frame.filepath
            sha == PayloadSha(frame.sha)
            status == IF answered THEN WriteStatus(path, sha) ELSE ServerError
        IN  /\ calls' = Count("put", status)
            /\ frame' = [frame EXCEPT
                            !.requests = Append(@, Request("PUT", "contents", path, status, sha))]
            /\ IF status \in {200, 201}
               THEN /\ store' = (path :> File(nextSha, frame.post_content, idx)) @@ store
                    /\ nextSha' = nextSha + 1
               ELSE UNCHANGED <<store, nextSha>>
            /\ IF raise_for_status(status)
               THEN Except
               ELSE /\ out' = Append(out, Printed("uploaded"))
                    /\ pc' = "Loop"
    /\ UNCHANGED <<arg, ret, pages, idx, others>>

\* Another writer commits to the file the run is about to look up or to
\* write: the writes of others that this run can observe.
OtherWriter ==
    /\ pc \in {"Lookup", "Write"}
    /\ others < MaxOtherWrites
    /\ store' = (frame.filepath :> File(nextSha, ForeignContent, 0)) @@ store
    /\ nextSha' = nextSha + 1
    /\ others' = others + 1
    /\ UNCHANGED <<arg, ret, pc, pages, idx, frame, calls, out>>

SyncStep ==
    \/ GetPublishedPages
    \/ NextPage
    \/ PageToMarkdown
    \/ Assemble
    \/ GetFileSha
    \/ PutFile

Next == SyncStep \/ OtherWriter

Init == SyncInit

Spec == Init /\ [][Next]_vars

(***************************************************************************)
(* Helpers of the properties below.                                        *)
(***************************************************************************)
Returned(fn) == pc = "Idle" /\ ret # <<>> /\ arg.fn = fn

Positions(s, c) == {k \in 1..Len(s) : s[k] = c}

Min(S) == CHOOSE m \in S : \A n \in S : m <= n

Max(S) == CHOOSE m \in S : \A n \in S : m >= n

\* s.split(c)
RECURSIVE Split(_, _)
Split(s, c) ==
    IF Positions(s, c) = {} THEN <<s>>
    ELSE LET k == Min(Positions(s, c))
         IN  <<SubSeq(s, 1, k - 1)>> \o Split(SubSeq(s, k + 1, Len(s)), c)

\* The maximal runs of characters of s that are neither whitespace nor hyphen.
RunStarts(s) == {k \in 1..Len(s) : ~IsSep(s[k]) /\ (k = 1 \/ IsSep(s[k - 1]))}

RunEnd(s, k) == Min({e \in k..Len(s) : e = Len(s) \/ IsSep(s[e + 1])})

RECURSIVE RunsFrom(_, _)
RunsFrom(s, starts) ==
    IF starts = {} THEN <<>>
    ELSE LET k == Min(starts)
         IN  <<SubSeq(s, k, RunEnd(s, k))>> \o RunsFrom(s, starts \ {k})

Runs(s) == RunsFrom(s, RunStarts(s))

(***************************************************************************)
(* C9.  create_filename(date, title) is date + "-" + slug + ".md", where   *)
(* slug is made of the lower-cased title with every character outside word *)
(* characters, whitespace and hyphen removed (not replaced): its maximal   *)
(* runs of word characters, joined by single hyphens.  So the slug holds   *)
(* no whitespace and no two adjacent hyphens and neither starts nor ends   *)
(* with a hyphen; date 2024-01-01 and title "Hello World!" give            *)
(* 2024-01-01-hello-world.md.                                              *)
(***************************************************************************)
HelloWorldMd ==
    <<"2", "0", "2", "4", "-", "0", "1", "-", "0", "1", "-", "h", "e", "l", "l", "o",
      "-", "w", "o", "r", "l", "d", ".", "m", "d">>

SlugIn(filename, date) == SubSeq(filename, Len(date) + 2, Len(filename) - 3)

SlugIsClean(slug) ==
    /\ \A k \in 1..Len(slug) : ~IsSpace(slug[k])
    /\ \A k \in 1..Len(slug) - 1 : ~(slug[k] = "-" /\ slug[k + 1] = "-")
    /\ slug # <<>> => slug[1] # "-" /\ slug[Len(slug)] # "-"

\* C9: the file name is date-slug.md, the slug being the word runs of the
\* lower-cased title joined by single hyphens.
FilenameIsDateSlugMd ==
    Returned("create_filename") =>
        LET kept == SelectSeq(Lower(arg.title), KeepSafe)
            slug == SlugIn(ret[1], arg.date)
        IN  /\ ret[1] = arg.date \o <<"-">> \o Join(<<"-">>, Runs(kept)) \o DotMd
            /\ SlugIsClean(slug)
            /\ SelectSeq(slug, IsWord) = SelectSeq(Lower(arg.title), IsWord)
            /\ arg.title = HelloWorld /\ arg.date = Date20240101 => ret[1] = HelloWorldMd

\* C9 (witness): the title "Hello World!".
FilenameHelloWorld ==
    Returned("create_filename") /\ arg.title = HelloWorld /\ ret[1] = HelloWorldMd

(***************************************************************************)
(* C5.  The FrontMatter page_to_markdown returns has a non-empty title and *)
(* a non-empty date, whatever the property bag holds (a title property of  *)
(* no spans, or of empty spans, included).                                 *)
(***************************************************************************)
\* C5: the title and the date of the FrontMatter are never empty.
TitleAndDateNeverEmpty ==
    Returned("page_to_markdown") =>
        /\ ret[1].front_matter.title # <<>>
        /\ ret[1].front_matter.date # <<>>

(***************************************************************************)
(* C6.  Each metadata field is decided by the first alias of its list that *)
(* the property bag holds, whatever the later aliases hold: the field is   *)
(* the value of that property (the default when that property has no       *)
(* value), and the default when no alias is present.                       *)
(***************************************************************************)
PresentKeys(properties, keys) == {k \in 1..Len(keys) : keys[k] \in DOMAIN properties}

FirstPresent(properties, keys) == properties[keys[Min(PresentKeys(properties, keys))]]

\* C6: the first alias present decides each metadata field.
FirstMatchWins ==
    Returned("page_to_markdown") =>
        LET properties == arg.page.properties
            fm == ret[1].front_matter
            default == [title |-> Untitled,
                        date |-> Take(arg.page.created_time, DateLen),
                        categories |-> <<>>,
                        tags |-> <<>>]
        IN  /\ fm.title =
                IF PresentKeys(properties, TitleKeys) = {} THEN default.title
                ELSE Concat([k \in 1..Len(FirstPresent(properties, TitleKeys).title) |->
                                FirstPresent(properties, TitleKeys).title[k].plain_text])
            /\ fm.date =
                IF PresentKeys(properties, DateKeys) = {} THEN default.date
                ELSE IF "date" \in DOMAIN FirstPresent(properties, DateKeys)
                THEN FirstPresent(properties, DateKeys).date.start
                ELSE default.date
            /\ fm.tags =
                IF PresentKeys(properties, TagsKeys) = {} THEN default.tags
                ELSE [k \in 1..Len(FirstPresent(properties, TagsKeys).multi_select) |->
                        FirstPresent(properties, TagsKeys).multi_select[k].name]
            /\ fm.categories =
                IF PresentKeys(properties, CategoryKeys) = {} THEN default.categories
                ELSE IF "select" \in DOMAIN FirstPresent(properties, CategoryKeys)
                THEN <<FirstPresent(properties, CategoryKeys).select.name>>
                ELSE default.categories
            /\ ret[1].title = fm.title

\* C6 (witness): every alias is present and the first of each list has won.
FirstMatchWinsOverLater ==
    /\ Returned("page_to_markdown")
    /\ AllKeys \subseteq DOMAIN arg.page.properties
    /\ ret[1].front_matter.title = AliasMark("Name") \o <<"x">>
    /\ ret[1].front_matter.date = AliasDate("Date")
    /\ ret[1].front_matter.tags = <<AliasMark("Tags"), <<"t">>>>
    /\ ret[1].front_matter.categories = <<AliasMark("Category")>>

(***************************************************************************)
(* C7.  The body page_to_markdown returns is the concatenation, in source  *)
(* order, of one fragment per block: the fixed template of the kind of the *)
(* block, and the empty string for every other kind; an unsupported block  *)
(* followed by a heading 2 "Intro" gives "## Intro" and a blank line.      *)
(***************************************************************************)
TextOf(block) ==
    LET spans == block[block.type].rich_text
    IN  Concat([k \in 1..Len(spans) |-> spans[k].plain_text])

CaptionOf(block) ==
    LET spans == block.image.caption
    IN  Concat([k \in 1..Len(spans) |-> spans[k].plain_text])

UrlOf(block) ==
    IF "file" \in DOMAIN block.image THEN block.image.file.url ELSE block.image.external.url

Template(block) ==
    LET kind == block.type
        blank == <<"\n", "\n">>
    IN  IF kind = "paragraph" THEN TextOf(block) \o blank
        ELSE IF kind \in {"heading_1", "heading_2", "heading_3"}
        THEN [k \in 1..(CHOOSE n \in 1..3 : kind = <<"heading_1", "heading_2", "heading_3">>[n])
                |-> "#"] \o <<" ">> \o TextOf(block) \o blank
        ELSE IF kind = "bulleted_list_item" THEN <<"-", " ">> \o TextOf(block) \o <<"\n">>
        ELSE IF kind = "numbered_list_item" THEN <<"1", ".", " ">> \o TextOf(block) \o <<"\n">>
        ELSE IF kind = "code"
        THEN Fence \o block.code.language \o <<"\n">> \o TextOf(block) \o <<"\n">> \o Fence \o blank
        ELSE IF kind = "quote" THEN <<">", " ">> \o TextOf(block) \o blank
        ELSE IF kind = "divider" THEN <<"-", "-", "-">> \o blank
        ELSE IF kind = "image"
        THEN <<"!", "[">> \o CaptionOf(block) \o <<"]", "(">> \o UrlOf(block) \o <<")">> \o blank
        ELSE <<>>

RECURSIVE InOrder(_)
InOrder(blocks) ==
    IF blocks = <<>> THEN <<>> ELSE Template(Head(blocks)) \o InOrder(Tail(blocks))

IntroBody == <<"#", "#", " ", "I", "n", "t", "r", "o", "\n", "\n">>

UnsupportedThenIntro(blocks) ==
    /\ Len(blocks) = 2
    /\ blocks[1].type \in {"table", "toggle", "unsupported"}
    /\ blocks[2].type = "heading_2"

\* C7: the body is the templates of the blocks, in source order.
BodyIsOrderedFragments ==
    Returned("page_to_markdown") =>
        /\ ret[1].content = InOrder(arg.blocks)
        /\ UnsupportedThenIntro(arg.blocks) => ret[1].content = IntroBody

\* C7 (witness): an unsupported block, then a heading 2.
BodyOfUnsupportedThenIntro ==
    /\ Returned("page_to_markdown")
    /\ UnsupportedThenIntro(arg.blocks)
    /\ ret[1].content = IntroBody

(***************************************************************************)
(* C8.  The header create_jekyll_post writes stands between an opening and *)
(* a closing marker line and holds the keys layout, title, date,           *)
(* categories, tags in this order, categories exactly when the FrontMatter *)
(* has a category and tags exactly when it has a tag; the blank line and   *)
(* the content follow the closing marker.                                  *)
(***************************************************************************)
PostLines == Split(ret[1], "\n")

ClosingLine == Min({k \in 2..Len(PostLines) : PostLines[k] = HeaderMarker})

KeyOf(line) ==
    IF Positions(line, ":") = {} THEN line ELSE SubSeq(line, 1, Min(Positions(line, ":")) - 1)

HeaderKeys == [k \in 1..(ClosingLine - 2) |-> KeyOf(PostLines[k + 1])]

HeaderValue(key) ==
    LET k == CHOOSE n \in 1..Len(HeaderKeys) : HeaderKeys[n] = key
        line == PostLines[k + 1]
    IN  SubSeq(line, Len(key) + 3, Len(line))

KeyLayout == <<"l", "a", "y", "o", "u", "t">>
KeyTitle == <<"t", "i", "t", "l", "e">>
KeyDate == <<"d", "a", "t", "e">>
KeyCategories == <<"c", "a", "t", "e", "g", "o", "r", "i", "e", "s">>
KeyTags == <<"t", "a", "g", "s">>

\* C8: the header keys are layout, title, date, then categories and tags exactly
\* when their lists are not empty.
HeaderKeysFollowFrontMatter ==
    Returned("create_jekyll_post") =>
        LET fm == arg.front_matter
        IN  /\ PostLines[1] = HeaderMarker
            /\ \E k \in 2..Len(PostLines) : PostLines[k] = HeaderMarker
            /\ HeaderKeys = <<KeyLayout, KeyTitle, KeyDate>>
                    \o (IF fm.categories # <<>> THEN <<KeyCategories>> ELSE <<>>)
                    \o (IF fm.tags # <<>> THEN <<KeyTags>> ELSE <<>>)
            /\ KeyCategories \in Range(HeaderKeys) <=> fm.categories # <<>>
            /\ KeyTags \in Range(HeaderKeys) <=> fm.tags # <<>>
            /\ \A k \in 1..Len(HeaderKeys) : HeaderValue(HeaderKeys[k]) \notin {<<>>, <<"[", "]">>}
            /\ ret[1] = Join(<<"\n">>, SubSeq(PostLines, 1, ClosingLine))
                            \o <<"\n", "\n">> \o arg.content

\* C8 (witness): tags without a category.
HeaderOmitsEmptyCategories ==
    /\ Returned("create_jekyll_post")
    /\ arg.front_matter.categories = <<>>
    /\ arg.front_matter.tags # <<>>
    /\ HeaderKeys = <<KeyLayout, KeyTitle, KeyDate, KeyTags>>

(***************************************************************************)
(* Helpers of the properties of sync().                                    *)
(***************************************************************************)
PrintedOf(kind, i) == {n \in 1..Len(out) : out[n].kind = kind /\ out[n].i = i}

LastPrinted(kind) == out # <<>> /\ out[Len(out)] = Printed(kind)

Requests == frame.requests

Answered(request) == request.status \notin {ServerError, NoResponse}

\* The position of the run: it grows with every statement sync() executes.
PcRank ==
    CASE pc = "Start" -> 0
      [] pc = "Convert" -> 1
      [] pc = "Assemble" -> 2
      [] pc = "Lookup" -> 3
      [] pc = "Write" -> 4
      [] pc = "Loop" -> 5
      [] OTHER -> 6

Rank == 7 * idx + PcRank

\* What sync() is to publish for a page, and where.
ConvertedOf(page) == page_to_markdown(page, Children(page.id))

PostOf(page) ==
    create_jekyll_post(ConvertedOf(page).title, ConvertedOf(page).content,
                       ConvertedOf(page).front_matter)

PathOf(page) ==
    blog_posts_path \o <<"/">>
        \o create_filename(ConvertedOf(page).front_matter.date, ConvertedOf(page).title)

(***************************************************************************)
(* C1.  Once the listing has succeeded, sync() attempts every page of it   *)
(* exactly once and in listing order, whatever steps raise: an exception   *)
(* never ends the run, the run is never stuck before it has printed its    *)
(* completion, every statement moves it forward, every attempted page ends *)
(* either published or with a diagnostic, and a page whose requests all    *)
(* succeed and whose steps do not raise is published.                      *)
(***************************************************************************)
SyncOrder ==
    /\ [n \in 1..Len(SelectSeq(out, LAMBDA e : e.kind = "progress")) |->
            SelectSeq(out, LAMBDA e : e.kind = "progress")[n].i] = [n \in 1..idx |-> n]
    /\ pc = "Raised" => idx = 0
    /\ pc \notin {"Done", "Raised"} => ENABLED SyncStep
    /\ \A i \in 1..idx :
        LET ended == Cardinality(PrintedOf("error", i)) + Cardinality(PrintedOf("uploaded", i))
        IN  ended = IF i < idx \/ pc \in {"Loop", "Done"} THEN 1 ELSE 0
    /\ pc = "Done" => idx = Len(pages) /\ LastPrinted("complete")
    /\ pc = "Loop" /\ idx >= 1 =>
        /\ LastPrinted("uploaded") <=>
                /\ Len(Requests) = 3
                /\ Requests[3].op = "PUT"
                /\ Requests[3].status \in {200, 201}
        /\ LastPrinted("uploaded") =>
                /\ FileAt(PathOf(pages[idx])).by = idx
                /\ FileAt(PathOf(pages[idx])).content = PostOf(pages[idx])

SyncMovesForward == Rank' > Rank \/ UNCHANGED <<pc, idx>>

\* C1: every page is attempted once and in order, no exception ends the run,
\* the run is never stuck and every statement moves it towards Done.
SyncAlwaysCompletes == []SyncOrder /\ [][SyncMovesForward]_vars

\* C1 (witness): three pages, the second fails, the first and third are published.
SyncSkipsFailedPage ==
    /\ pc = "Done"
    /\ Len(pages) = 3
    /\ [n \in 1..Len(out) |-> out[n].kind] =
            <<"progress", "uploaded", "progress", "error", "progress", "uploaded", "complete">>
    /\ calls.put = 3

(***************************************************************************)
(* C2.  The lookup of push_to_github reports a 200 as the token of the     *)
(* file and a 404 as no file; any other answer is an error that ends the   *)
(* iteration, so that no write follows it.                                 *)
(***************************************************************************)
\* C2: a lookup answered with a status other than 200 or 404 raises; no write follows.
LookupErrorIsPropagated ==
    \A k \in 1..Len(Requests) :
        LET request == Requests[k]
        IN  request.op = "GET" /\ request.api = "contents" =>
                /\ request.status = 200 => request.sha = <<request.seen.sha>>
                /\ request.status = 404 => request.sha = <<>>
                /\ request.status \in {200, 404} /\ k = Len(Requests) => pc = "Write"
                /\ request.status \notin {200, 404} =>
                        /\ k = Len(Requests)
                        /\ pc = "Loop"
                        /\ LastPrinted("error")

(***************************************************************************)
(* C3.  In every push_to_github the lookup of the path comes right before  *)
(* the write to it.  When the repository answers both and nobody writes    *)
(* in between, the write of a file that is not there creates it, and the   *)
(* write that follows a push of the same page (same path, same content)    *)
(* carries the token that push produced and is accepted as an update.      *)
(***************************************************************************)
\* C3: lookup before write; the second of two pushes of a page updates with the
\* token of the first.
SecondUpsertUpdates ==
    \A k \in 1..Len(Requests) :
        Requests[k].op = "PUT" =>
            /\ k > 1
            /\ Requests[k - 1].op = "GET"
            /\ Requests[k - 1].api = "contents"
            /\ Requests[k - 1].path = Requests[k].path
            /\ LET lookup == Requests[k - 1]
                   write == Requests[k]
               IN  Answered(lookup) /\ Answered(write) /\ write.seen = lookup.seen =>
                        /\ ~lookup.seen.exists =>
                                write.sha = <<>> /\ write.status = 201
                        /\ idx >= 2 /\ pages[idx] = pages[idx - 1] /\ lookup.seen.by = idx - 1 =>
                                /\ lookup.status = 200
                                /\ write.sha = <<lookup.seen.sha>>
                                /\ write.status = 200
                                /\ LastPrinted("uploaded")

\* C3 (witness): the second push of the same page was accepted as an update.
SecondUpsertUpdated ==
    /\ pc = "Loop" /\ idx = 2 /\ pages[2] = pages[1]
    /\ PrintedOf("uploaded", 1) # {}
    /\ Len(Requests) = 3
    /\ Requests[2].seen.by = 1
    /\ Requests[3].sha = <<Requests[2].seen.sha>>
    /\ Requests[3].status = 200
    /\ FileAt(Requests[3].path).by = 2

(***************************************************************************)
(* C4.  A listing that is refused ends the run at once: nothing is printed,*)
(* no page is attempted, no block fetch, lookup or write is requested, the *)
(* repository is left alone and the listing is not asked for again.        *)
(***************************************************************************)
\* C4: a refused listing ends the run before any page, fetch, lookup or write.
ListingFailureEndsRun ==
    /\ calls.query <= 1
    /\ calls.failed /\ calls.blocks = 0 => pc = "Raised"
    /\ pc = "Raised" =>
        /\ calls = [query |-> 1, blocks |-> 0, lookup |-> 0, put |-> 0, failed |-> TRUE]
        /\ idx = 0 /\ pages = <<>> /\ out = <<>> /\ Requests = <<>>
        /\ store \in InitialStores
        /\ ~ENABLED SyncStep

\* C4 (witness): the listing was refused and the run has ended.
ListingRefused == pc = "Raised" /\ calls.query = 1 /\ calls.failed

(***************************************************************************)
(* C10.  In a run in which no call fails, no step raises and nobody else   *)
(* writes, every page causes one lookup followed by one write, both to     *)
(* blog_posts_path/create_filename(date, title); when an earlier page of   *)
(* the run maps to the same path, the lookup resolves the token the        *)
(* latest of them left and the write is accepted as an update; and at the  *)
(* end every path written holds the post of the last page mapping to it.   *)
(***************************************************************************)
CleanRun ==
    /\ ~calls.failed
    /\ others = 0
    /\ \A n \in 1..Len(out) : out[n].kind # "error"

Earlier(path) == {j \in 1..(idx - 1) : PathOf(pages[j]) = path}

\* C10: in a clean run each page looks up and then writes its path once, and a
\* path ends with the post of the last page that maps to it.
LastWriterWins ==
    /\ CleanRun /\ pc = "Loop" /\ idx >= 1 =>
        LET path == PathOf(pages[idx])
        IN  /\ Len(Requests) = 3
            /\ [n \in 1..3 |-> <<Requests[n].op, Requests[n].api>>] =
                    <<<<"GET", "blocks">>, <<"GET", "contents">>, <<"PUT", "contents">>>>
            /\ Requests[2].path = path /\ Requests[3].path = path
            /\ calls.lookup = idx /\ calls.put = idx
            /\ Earlier(path) # {} =>
                /\ Requests[2].status = 200
                /\ Requests[2].seen.by = Max(Earlier(path))
                /\ Requests[2].sha = <<Requests[2].seen.sha>>
                /\ Requests[3].sha = Requests[2].sha
                /\ Requests[3].status = 200
    /\ CleanRun /\ pc = "Done" =>
        /\ \A j \in 1..Len(pages) :
            LET last == Max({n \in 1..Len(pages) : PathOf(pages[n]) = PathOf(pages[j])})
            IN  /\ FileAt(PathOf(pages[j])).by = last
                /\ FileAt(PathOf(pages[j])).content = PostOf(pages[last])
        /\ \A path \in DOMAIN store :
            store[path].by # 0 => \E j \in 1..Len(pages) : PathOf(pages[j]) = path

\* C10 (witness): the third page overwrote the file of the first.
LaterPageOverwrote ==
    /\ CleanRun /\ pc = "Done"
    /\ pages = <<PageAB, PageC, PageA_B>>
    /\ FileAt(PathAB).by = 3
    /\ FileAt(PathAB).content = PostOf(PageA_B)
    /\ FileAt(PathAB).content # PostOf(PageAB)
    /\ FileAt(PathC).by = 2

====
